---- MODULE Spec2Model ----
(***************************************************************************)
(* A model of the interactive shell of src/src/main.cpp: the REPL, the     *)
(* history list with its append cursor, and the pipeline executor with     *)
(* its pipes, forked stage children and waits.                             *)
(*                                                                         *)
(* A std::string is a sequence of one-character strings; indices are       *)
(* 1-based here and 0-based in the source.                                 *)
(***************************************************************************)
EXTENDS Integers, Sequences, FiniteSets, TLC

\* ------------------------------------------------------------------------
\* Bounds of the model
\* ------------------------------------------------------------------------

\* Lines the terminal delivers in one session before end of input.
MaxLines == 2

\* Bytes a pipe buffers before a writer blocks (the kernel's is 64 KiB).
PipeCap == 1

\* Blocks an external program writes to its stdout, at most.
MaxWrites == 2

\* Child processes alive at once: the stages of the longest pipeline entered.
MaxStages == 4

\* The most tokens of a list given to the redirection scan
MaxTokens == 4

\* The most characters of a string put between quotes and given to tokenize
MaxLen == 4

\* The most characters of a word to complete
MaxPrefix == 3

\* ------------------------------------------------------------------------
\* Strings
\* ------------------------------------------------------------------------

\* std::isspace in the "C" locale
isspace(c) == c \in {" ", "\t", "\n", "\r", "\f"}

\* The value std::string::find and find_first_not_of return for "none";
\* positions are 1-based, so 0 is free.
npos == 0

RECURSIVE find_from(_, _, _)
\* s.find(c, start): the first position >= start holding c
find_from(s, c, start) ==
  IF start > Len(s) THEN npos
  ELSE IF s[start] = c THEN start
  ELSE find_from(s, c, start + 1)

RECURSIVE find_first_not_of(_, _, _)
\* s.find_first_not_of(set), scanning from position i
find_first_not_of(s, set, i) ==
  IF i > Len(s) THEN npos
  ELSE IF s[i] \notin set THEN i
  ELSE find_first_not_of(s, set, i + 1)

RECURSIVE find_last_not_of(_, _, _)
\* s.find_last_not_of(set), scanning down from position i
find_last_not_of(s, set, i) ==
  IF i < 1 THEN npos
  ELSE IF s[i] \notin set THEN i
  ELSE find_last_not_of(s, set, i - 1)

RECURSIVE find_str(_, _, _)
\* s.find(w): the first position where w occurs in s, from position i
find_str(s, w, i) ==
  IF i + Len(w) - 1 > Len(s) THEN npos
  ELSE IF SubSeq(s, i, i + Len(w) - 1) = w THEN i
  ELSE find_str(s, w, i + 1)

\* s.substr(start): the tail of s from position start
substr(s, start) == SubSeq(s, start, Len(s))

\* trim: strip spaces and tabs from both ends
trim(s) ==
  LET start == find_first_not_of(s, {" ", "\t"}, 1)
      end   == find_last_not_of(s, {" ", "\t"}, Len(s))
  IN IF start = npos THEN <<>> ELSE SubSeq(s, start, end)

RECURSIVE tokenize_loop_escape_all(_, _, _, _, _, _)
\* A variant of tokenize_loop in which a backslash inside double quotes
\* escapes whatever character follows it
tokenize_loop_escape_all(s, i, tokens, current, in_single_quote, in_double_quote) ==
  IF i > Len(s)
  THEN IF current # <<>> THEN Append(tokens, current) ELSE tokens
  ELSE
    LET c == s[i] IN
    IF in_single_quote THEN
      IF c = "'"
      THEN tokenize_loop_escape_all(s, i + 1, tokens, current, FALSE,
                                    in_double_quote)
      ELSE tokenize_loop_escape_all(s, i + 1, tokens, Append(current, c),
                                    TRUE, in_double_quote)
    ELSE IF in_double_quote THEN
      IF c = "\""
      THEN tokenize_loop_escape_all(s, i + 1, tokens, current,
                                    in_single_quote, FALSE)
      ELSE IF c = "\\" /\ i < Len(s)
      THEN tokenize_loop_escape_all(s, i + 2, tokens,
                                    Append(current, s[i + 1]),
                                    in_single_quote, in_double_quote)
      ELSE tokenize_loop_escape_all(s, i + 1, tokens, Append(current, c),
                                    in_single_quote, in_double_quote)
    ELSE
      IF c = "'"
      THEN tokenize_loop_escape_all(s, i + 1, tokens, current, TRUE,
                                    in_double_quote)
      ELSE IF c = "\""
      THEN tokenize_loop_escape_all(s, i + 1, tokens, current,
                                    in_single_quote, TRUE)
      ELSE IF c = "\\" /\ i < Len(s)
      THEN tokenize_loop_escape_all(s, i + 2, tokens,
                                    Append(current, s[i + 1]),
                                    in_single_quote, in_double_quote)
      ELSE IF isspace(c)
      THEN IF current # <<>>
           THEN tokenize_loop_escape_all(s, i + 1, Append(tokens, current),
                                         <<>>, in_single_quote,
                                         in_double_quote)
           ELSE tokenize_loop_escape_all(s, i + 1, tokens, current,
                                         in_single_quote, in_double_quote)
      ELSE tokenize_loop_escape_all(s, i + 1, tokens, Append(current, c),
                                    in_single_quote, in_double_quote)

RECURSIVE tokenize_loop(_, _, _, _, _, _)
\* The loop of tokenize: i is the position read next.
tokenize_loop(s, i, tokens, current, in_single_quote, in_double_quote) ==
  IF i > Len(s)
  THEN IF current # <<>> THEN Append(tokens, current) ELSE tokens
  ELSE
    LET c == s[i] IN
    IF in_single_quote THEN
      IF c = "'"
      THEN tokenize_loop(s, i + 1, tokens, current, FALSE, in_double_quote)
      ELSE tokenize_loop(s, i + 1, tokens, Append(current, c), TRUE, in_double_quote)
    ELSE IF in_double_quote THEN
      IF c = "\""
      THEN tokenize_loop(s, i + 1, tokens, current, in_single_quote, FALSE)
      ELSE IF c = "\\" /\ i < Len(s) /\ s[i + 1] \in {"\"", "\\", "$", "\n"}
      THEN tokenize_loop(s, i + 2, tokens, Append(current, s[i + 1]),
                         in_single_quote, in_double_quote)
      ELSE tokenize_loop(s, i + 1, tokens, Append(current, c),
                         in_single_quote, in_double_quote)
    ELSE
      IF c = "'"
      THEN tokenize_loop(s, i + 1, tokens, current, TRUE, in_double_quote)
      ELSE IF c = "\""
      THEN tokenize_loop(s, i + 1, tokens, current, in_single_quote, TRUE)
      ELSE IF c = "\\" /\ i < Len(s)
      THEN tokenize_loop(s, i + 2, tokens, Append(current, s[i + 1]),
                         in_single_quote, in_double_quote)
      ELSE IF isspace(c)
      THEN IF current # <<>>
           THEN tokenize_loop(s, i + 1, Append(tokens, current), <<>>,
                              in_single_quote, in_double_quote)
           ELSE tokenize_loop(s, i + 1, tokens, current,
                              in_single_quote, in_double_quote)
      ELSE tokenize_loop(s, i + 1, tokens, Append(current, c),
                         in_single_quote, in_double_quote)

\* A variant of tokenize that starts inside single quotes
tokenize_in_quote(s) == tokenize_loop(s, 1, <<>>, <<>>, TRUE, FALSE)

\* tokenize: a command line to its arguments, respecting quotes and escapes
tokenize(s) == tokenize_loop(s, 1, <<>>, <<>>, FALSE, FALSE)

RECURSIVE extract_words(_, _, _, _)
\* Every operator>> of the std::istringstream, in order: the maximal runs of
\* non-whitespace characters.
extract_words(s, i, words, current) ==
  IF i > Len(s)
  THEN IF current # <<>> THEN Append(words, current) ELSE words
  ELSE IF isspace(s[i])
  THEN IF current # <<>>
       THEN extract_words(s, i + 1, Append(words, current), <<>>)
       ELSE extract_words(s, i + 1, words, current)
  ELSE extract_words(s, i + 1, words, Append(current, s[i]))

\* The k-th extraction iss >> x: the k-th word, the empty string when the
\* stream is exhausted.
iss_word(s, k) ==
  LET words == extract_words(s, 1, <<>>, <<>>)
  IN IF k <= Len(words) THEN words[k] ELSE <<>>

RECURSIVE split_stages(_, _, _)
\* The pipeline split: the substrings between the '|' characters of the raw
\* line, from position start.
split_stages(input, start, stages) ==
  LET pos == find_from(input, "|", start)
  IN IF pos = npos
     THEN Append(stages, substr(input, start))
     ELSE split_stages(input, pos + 1,
                       Append(stages, SubSeq(input, start, pos - 1)))

\* pipeline_tokens: every stage trimmed and tokenized
pipeline_tokens(input) ==
  LET stages == split_stages(input, 1, <<>>)
  IN [k \in 1..Len(stages) |-> tokenize(trim(stages[k]))]

\* ------------------------------------------------------------------------
\* Redirection scan (the same loop in the echo builtin and in the external
\* command branch)
\* ------------------------------------------------------------------------

\* A variant of erase2 that erases the operator and leaves its target
erase2_operator_only(tokens, i) ==
  SubSeq(tokens, 1, i - 1) \o SubSeq(tokens, i + 1, Len(tokens))

\* tokens.erase(tokens.begin() + i, tokens.begin() + i + 2)
erase2(tokens, i) == SubSeq(tokens, 1, i - 1) \o SubSeq(tokens, i + 2, Len(tokens))

RECURSIVE redirect_scan(_, _, _)
\* The scan from position i; r carries redirect_file, append_mode,
\* redirect_stderr_file and append_stderr_mode.
redirect_scan(tokens, i, r) ==
  IF i > Len(tokens) THEN [r EXCEPT !.tokens = tokens]
  ELSE IF tokens[i] \in {<<">">>, <<"1", ">">>} /\ i < Len(tokens)
  THEN redirect_scan(erase2(tokens, i), i,
         [r EXCEPT !.redirect_file = tokens[i + 1], !.append_mode = FALSE])
  ELSE IF tokens[i] \in {<<">", ">">>, <<"1", ">", ">">>} /\ i < Len(tokens)
  THEN redirect_scan(erase2(tokens, i), i,
         [r EXCEPT !.redirect_file = tokens[i + 1], !.append_mode = TRUE])
  ELSE IF tokens[i] = <<"2", ">">> /\ i < Len(tokens)
  THEN redirect_scan(erase2(tokens, i), i,
         [r EXCEPT !.redirect_stderr_file = tokens[i + 1],
                   !.append_stderr_mode = FALSE])
  ELSE IF tokens[i] = <<"2", ">", ">">> /\ i < Len(tokens)
  THEN redirect_scan(erase2(tokens, i), i,
         [r EXCEPT !.redirect_stderr_file = tokens[i + 1],
                   !.append_stderr_mode = TRUE])
  ELSE redirect_scan(tokens, i + 1, r)

\* The redirection plan of a token list: the residual tokens and the two
\* targets with their append flags (an empty target: no redirection).
parse_redirection(tokens) ==
  redirect_scan(tokens, 1,
    [tokens |-> tokens, redirect_file |-> <<>>, append_mode |-> FALSE,
     redirect_stderr_file |-> <<>>, append_stderr_mode |-> FALSE])

\* ------------------------------------------------------------------------
\* The environment: variables, the file system the shell runs on
\* ------------------------------------------------------------------------

\* Directories of the file system.
Directories == {<<"/">>, <<"/", "a">>, <<"/", "b">>, <<"/", "a", "/", "d">>}

\* Regular files that are there from the start and are not data files of the
\* session, with their owner-execute bit.
Programs ==
  [p \in {<<"/", "b", "/", "c", "a", "t">>, <<"/", "b", "/", "l", "s">>,
          <<"/", "b", "/", "d">>, <<"/", "a", "/", "l", "s">>,
          <<"/", "b", "/", "e", "c", "h", "o">>}
     |-> p # <<"/", "a", "/", "l", "s">>]

\* getenv("PATH")
PATH_env == <<"/", "a", ":", "/", "b">>

\* getenv("HOME")
HOME_env == <<"/", "a">>

\* Data files a session can open for reading or writing; their directory
\* exists and is writable. Every other path fails to open.
OpenableFiles == {<<"F">>, <<"H">>, <<"O">>}

\* stat(path) == 0 && sb.st_mode & S_IXUSR: directories carry the bit too.
stat_xusr(path) ==
  \/ path \in Directories
  \/ path \in DOMAIN Programs /\ Programs[path]

\* execv(path, argv) replaces the process image: path names a regular file
\* with the execute bit.
execv_ok(path) == path \in DOMAIN Programs /\ Programs[path]

RECURSIVE split_path(_, _, _, _)
\* std::getline(path_stream, dir, ':') until the stream ends: the fields
\* between the colons; a trailing colon starts no further field.
split_path(s, i, dirs, dir) ==
  IF i > Len(s)
  THEN IF dir # <<>> THEN Append(dirs, dir) ELSE dirs
  ELSE IF s[i] = ":"
  THEN split_path(s, i + 1, Append(dirs, dir), <<>>)
  ELSE split_path(s, i + 1, dirs, Append(dir, s[i]))

RECURSIVE search_path(_, _, _)
\* The PATH loop: the first dir + "/" + name that stat finds with S_IXUSR
\* set; found is FALSE when the loop ends without a hit.
search_path(dirs, k, name) ==
  IF k > Len(dirs) THEN [found |-> FALSE, full_path |-> <<>>]
  ELSE LET full_path == dirs[k] \o <<"/">> \o name
       IN IF stat_xusr(full_path)
          THEN [found |-> TRUE, full_path |-> full_path]
          ELSE search_path(dirs, k + 1, name)

\* The lookup of a command name on PATH.
lookup(name) == search_path(split_path(PATH_env, 1, <<>>, <<>>), 1, name)

\* ------------------------------------------------------------------------
\* Numbers and text
\* ------------------------------------------------------------------------

Digits == <<"0", "1", "2", "3", "4", "5", "6", "7", "8", "9">>

\* The value of a digit character
digit_value(c) == (CHOOSE k \in 1..10 : Digits[k] = c) - 1

is_digit(c) == \E k \in 1..10 : Digits[k] = c

RECURSIVE to_string(_)
\* operator<< of a non-negative int: its decimal digits
to_string(v) ==
  IF v < 10 THEN <<Digits[v + 1]>>
  ELSE Append(to_string(v \div 10), Digits[(v % 10) + 1])

RECURSIVE stoi_digits(_, _, _)
\* The digits std::stoi converts, from position i, with the value so far
stoi_digits(s, i, acc) ==
  IF i <= Len(s) /\ is_digit(s[i])
  THEN stoi_digits(s, i + 1, acc * 10 + digit_value(s[i]))
  ELSE acc

\* std::stoi(s): an optional sign and the leading digits; ok is FALSE where
\* it throws std::invalid_argument (no digit to convert).
stoi(s) ==
  LET signed == Len(s) >= 1 /\ s[1] \in {"+", "-"}
      first  == IF signed THEN 2 ELSE 1
      mag    == stoi_digits(s, first, 0)
  IN IF first <= Len(s) /\ is_digit(s[first])
     THEN [ok |-> TRUE, value |-> IF signed /\ s[1] = "-" THEN 0 - mag ELSE mag]
     ELSE [ok |-> FALSE, value |-> 0]

RECURSIVE join_tokens(_, _)
\* The tokens from position k on, each after the first preceded by one space
join_tokens(tokens, k) ==
  IF k > Len(tokens) THEN <<>>
  ELSE (IF k > 1 THEN <<" ">> ELSE <<>>) \o tokens[k] \o join_tokens(tokens, k + 1)

\* The words and message texts of the source, as character sequences

\* "echo"
w_echo ==
  <<"e", "c", "h", "o">>

\* "exit"
w_exit ==
  <<"e", "x", "i", "t">>

\* "type"
w_type ==
  <<"t", "y", "p", "e">>

\* "history"
w_history ==
  <<"h", "i", "s", "t", "o", "r", "y">>

\* "pwd"
w_pwd ==
  <<"p", "w", "d">>

\* "cd"
w_cd ==
  <<"c", "d">>

\* the text of line 236
msg_pipe ==
  <<"F", "a", "i", "l", "e", "d", " ", "t", "o", " ", "c", "r", "e", "a",
    "t", "e", " ", "p", "i", "p", "e">>

\* the text of lines 340 and 686
msg_fork ==
  <<"F", "a", "i", "l", "e", "d", " ", "t", "o", " ", "f", "o", "r", "k">>

\* the text of lines 413 and 658
msg_redirect ==
  <<"F", "a", "i", "l", "e", "d", " ", "t", "o", " ", "o", "p", "e", "n",
    " ", "f", "i", "l", "e", " ", "f", "o", "r", " ", "r", "e", "d", "i",
    "r", "e", "c", "t", "i", "o", "n", ":", " ">>

\* the text of lines 426 and 670
msg_redirect_stderr ==
  <<"F", "a", "i", "l", "e", "d", " ", "t", "o", " ", "o", "p", "e", "n",
    " ", "f", "i", "l", "e", " ", "f", "o", "r", " ", "s", "t", "d", "e",
    "r", "r", " ", "r", "e", "d", "i", "r", "e", "c", "t", "i", "o", "n",
    ":", " ">>

\* the text of lines 268 and 467
msg_builtin ==
  <<" ", "i", "s", " ", "a", " ", "s", "h", "e", "l", "l", " ", "b", "u",
    "i", "l", "t", "i", "n">>

\* the text of lines 283 and 482
msg_is ==
  <<" ", "i", "s", " ">>

\* the text of lines 290 and 489
msg_not_found ==
  <<":", " ", "n", "o", "t", " ", "f", "o", "u", "n", "d">>

\* the text of lines 266 and 492
msg_type_missing ==
  <<"t", "y", "p", "e", ":", " ", "m", "i", "s", "s", "i", "n", "g", " ",
    "a", "r", "g", "u", "m", "e", "n", "t">>

\* the text of lines 324 and 646
msg_cmd_not_found ==
  <<":", " ", "c", "o", "m", "m", "a", "n", "d", " ", "n", "o", "t", " ",
    "f", "o", "u", "n", "d">>

\* the text of lines 331 and 677
msg_exec ==
  <<"F", "a", "i", "l", "e", "d", " ", "t", "o", " ", "e", "x", "e", "c",
    "u", "t", "e", " ">>

\* the text of lines 572 and 576
msg_cd ==
  <<"c", "d", ":", " ">>

\* the text of lines 572 and 576
msg_no_dir ==
  <<":", " ", "N", "o", " ", "s", "u", "c", "h", " ", "f", "i", "l", "e",
    " ", "o", "r", " ", "d", "i", "r", "e", "c", "t", "o", "r", "y">>

\* the text of line 559
msg_pwd ==
  <<"p", "w", "d", ":", " ", "e", "r", "r", "o", "r", " ", "r", "e", "t",
    "r", "i", "e", "v", "i", "n", "g", " ", "c", "u", "r", "r", "e", "n",
    "t", " ", "d", "i", "r", "e", "c", "t", "o", "r", "y">>

\* The builtins vector
builtins == {w_echo, w_exit, w_history, w_pwd, w_cd, w_type}

\* std::find over the builtins vector
is_builtin(cmd) == cmd \in builtins

\* ------------------------------------------------------------------------
\* The history library (GNU readline's history list and its file functions)
\* ------------------------------------------------------------------------

RECURSIVE file_lines(_, _, _, _)
\* The newline-terminated lines of a file's bytes, from position i
file_lines(data, i, lines, line) ==
  IF i > Len(data) THEN lines
  ELSE IF data[i] = "\n"
  THEN file_lines(data, i + 1, Append(lines, line), <<>>)
  ELSE file_lines(data, i + 1, lines, Append(line, data[i]))

RECURSIVE nonempty_lines(_, _)
\* read_history adds a line of the file only when it is not empty
nonempty_lines(lines, k) ==
  IF k > Len(lines) THEN <<>>
  ELSE (IF lines[k] # <<>> THEN <<lines[k]>> ELSE <<>>)
       \o nonempty_lines(lines, k + 1)

RECURSIVE entry_lines(_, _, _)
\* The bytes of the entries hist[from .. to-1] (0-based), each followed by a
\* newline: what the loop of fprintf(f, "%s\n", line) writes
entry_lines(hist, from, to) ==
  IF from >= to THEN <<>>
  ELSE hist[from + 1] \o <<"\n">> \o entry_lines(hist, from + 1, to)

\* A file that does not exist
NoFile == [exists |-> FALSE, data |-> <<>>]

\* open/fopen of path for writing or appending, creating it when absent
can_open_write(path) == path \in OpenableFiles

\* open/fopen of path for reading
can_open_read(fs, path) == path \in OpenableFiles /\ fs[path].exists

\* add_history(line): one new last entry
add_history(hist, line) == Append(hist, line)

\* read_history(path): the list with the file's lines appended; unchanged
\* when the file cannot be read
read_history(hist, fs, path) ==
  IF can_open_read(fs, path)
  THEN hist \o nonempty_lines(file_lines(fs[path].data, 1, <<>>, <<>>), 1)
  ELSE hist

\* write_history(path): the file replaced by the whole list; the files
\* unchanged when the path cannot be opened
write_history(hist, fs, path) ==
  IF can_open_write(path)
  THEN [fs EXCEPT ![path] = [exists |-> TRUE,
                             data |-> entry_lines(hist, 0, Len(hist))]]
  ELSE fs

\* open(path, O_WRONLY | O_CREAT | (append ? O_APPEND : O_TRUNC)) and
\* fopen(path, "a"): the file is created when absent, emptied when truncated
open_file(fs, path, append) ==
  [fs EXCEPT ![path] = [exists |-> TRUE,
                        data |-> IF append THEN fs[path].data ELSE <<>>]]

\* A write of data at the end of an open file
append_data(fs, path, data) == [fs EXCEPT ![path].data = @ \o data]

\* ------------------------------------------------------------------------
\* The lines the terminal can deliver
\* ------------------------------------------------------------------------

\* the empty line
line_empty ==
  <<>>

\* a line of a space and a tab
line_blank ==
  <<" ", "\t">>

\* "history"
line_history ==
  <<"h", "i", "s", "t", "o", "r", "y">>

\* "history 1"
line_history_1 ==
  <<"h", "i", "s", "t", "o", "r", "y", " ", "1">>

\* "history -r F"
line_history_r ==
  <<"h", "i", "s", "t", "o", "r", "y", " ", "-", "r", " ", "F">>

\* "history -w F"
line_history_w ==
  <<"h", "i", "s", "t", "o", "r", "y", " ", "-", "w", " ", "F">>

\* "history -w /n/f"
line_history_w_bad ==
  <<"h", "i", "s", "t", "o", "r", "y", " ", "-", "w", " ", "/", "n", "/",
    "f">>

\* "history -a F"
line_history_a ==
  <<"h", "i", "s", "t", "o", "r", "y", " ", "-", "a", " ", "F">>

\* "history -a /n/f"
line_history_a_bad ==
  <<"h", "i", "s", "t", "o", "r", "y", " ", "-", "a", " ", "/", "n", "/",
    "f">>

\* "exit"
line_exit ==
  <<"e", "x", "i", "t">>

\* "exit 7"
line_exit_7 ==
  <<"e", "x", "i", "t", " ", "7">>

\* "exit x"
line_exit_x ==
  <<"e", "x", "i", "t", " ", "x">>

\* "echo  hi 'a b'"
line_echo ==
  <<"e", "c", "h", "o", " ", " ", "h", "i", " ", "'", "a", " ", "b", "'">>

\* "echo hi > O 2>> F"
line_echo_to ==
  <<"e", "c", "h", "o", " ", "h", "i", " ", ">", " ", "O", " ", "2", ">",
    ">", " ", "F">>

\* "echo hi > /n/f"
line_echo_bad ==
  <<"e", "c", "h", "o", " ", "h", "i", " ", ">", " ", "/", "n", "/", "f">>

\* "echo hi >> O 2> /n/f"
line_echo_bad2 ==
  <<"e", "c", "h", "o", " ", "h", "i", " ", ">", ">", " ", "O", " ", "2",
    ">", " ", "/", "n", "/", "f">>

\* "type ls"
line_type ==
  <<"t", "y", "p", "e", " ", "l", "s">>

\* "pwd"
line_pwd ==
  <<"p", "w", "d">>

\* "cd /b"
line_cd ==
  <<"c", "d", " ", "/", "b">>

\* "cd /x"
line_cd_bad ==
  <<"c", "d", " ", "/", "x">>

\* "ls"
line_ls ==
  <<"l", "s">>

\* "ls > O"
line_ls_to ==
  <<"l", "s", " ", ">", " ", "O">>

\* "nope"
line_nope ==
  <<"n", "o", "p", "e">>

\* "> O"
line_only_redirect ==
  <<">", " ", "O">>

\* "echo a | cat"
line_pipe2 ==
  <<"e", "c", "h", "o", " ", "a", " ", "|", " ", "c", "a", "t">>

\* "ls | exit"
line_pipe_builtin ==
  <<"l", "s", " ", "|", " ", "e", "x", "i", "t">>

\* "cat | /b/cat | type"
line_pipe3 ==
  <<"c", "a", "t", " ", "|", " ", "/", "b", "/", "c", "a", "t", " ", "|",
    " ", "t", "y", "p", "e">>

\* "|"
line_pipe_empty ==
  <<"|">>

\* "echo a | cat | nope | type"
line_pipe4 ==
  <<"e", "c", "h", "o", " ", "a", " ", "|", " ", "c", "a", "t", " ", "|",
    " ", "n", "o", "p", "e", " ", "|", " ", "t", "y", "p", "e">>

\* echo a ">" O
line_echo_quoted ==
  <<"e", "c", "h", "o", " ", "a", " ", "\"", ">", "\"", " ", "O">>

\* ls '>' O
line_ls_quoted ==
  <<"l", "s", " ", "'", ">", "'", " ", "O">>

\* type d
line_type_d ==
  <<"t", "y", "p", "e", " ", "d">>

\* d
line_d ==
  <<"d">>

\* echo a > O | cat
line_pipe_redirect ==
  <<"e", "c", "h", "o", " ", "a", " ", ">", " ", "O", " ", "|", " ", "c",
    "a", "t">>

\* cd /b | history -w F | exit
line_pipe_builtins ==
  <<"c", "d", " ", "/", "b", " ", "|", " ", "h", "i", "s", "t", "o", "r",
    "y", " ", "-", "w", " ", "F", " ", "|", " ", "e", "x", "i", "t">>

\* The lines a session of the model can enter.
InputLines ==
  {line_empty, line_blank, line_history, line_history_1, line_history_r,
   line_history_w, line_history_w_bad, line_history_a, line_history_a_bad,
   line_exit, line_exit_7, line_exit_x, line_echo, line_echo_to,
   line_echo_bad, line_echo_bad2, line_type, line_pwd, line_cd, line_cd_bad,
   line_ls, line_ls_to, line_nope, line_only_redirect, line_pipe2,
   line_pipe_builtin, line_pipe_empty, line_echo_quoted, line_ls_quoted,
   line_type_d, line_d}

\* The lines of the sessions that exercise the executor: pipelines of two,
\* three and four stages and single external commands.
PipeLines ==
  {line_ls, line_ls_to, line_nope, line_pipe2, line_pipe_builtin, line_pipe3,
   line_pipe_empty, line_pipe4, line_pipe_redirect, line_pipe_builtins}

\* The contents $HISTFILE (the file H) can have when the shell starts.
InitialHistfiles ==
  {NoFile, [exists |-> TRUE, data |-> <<"l", "s", "\n", "p", "w", "d", "\n">>]}

\* getenv("HISTFILE"): unset, set to the empty string, or set to H.
HistfileValues ==
  {[null |-> TRUE, str |-> <<>>], [null |-> FALSE, str |-> <<>>],
   [null |-> FALSE, str |-> <<"H">>]}

\* ------------------------------------------------------------------------
\* State
\* ------------------------------------------------------------------------

VARIABLES
  pc,                     \* where the shell process is: prompt, dispatch,
                          \* pipe, fork, close, wait, extwait, done
  input,                  \* the line read by readline
  nlines,                 \* lines read so far
  history,                \* the history list of the library
  last_appended_history,  \* the cursor of history -a
  histfile,               \* getenv("HISTFILE")
  files,                  \* the data files: path -> [exists, data]
  cwd,                    \* the working directory of the shell process
  fds,                    \* the descriptor table of the shell process
  term,                   \* how the shell process ended, "running" before
  exit_code,              \* its exit status
  stdout_log,             \* lines the shell process wrote to the terminal
  stderr_log,             \* lines it wrote to the terminal's stderr
  stage_tokens,           \* pipeline: the tokens of every stage
  n,                      \* pipeline: number of stages
  pfd,                    \* pipeline: the descriptors of the pipes
  pids,                   \* pipeline: the children, in spawn order
  i,                      \* pipeline: index of the pipe and fork loops
  wi,                     \* pipeline: children waited for so far
  child,                  \* the child processes: pid -> record
  pipebuf,                \* blocks buffered in each pipe
  reaped,                 \* the pids waitpid has returned, in order
  prev_a,                 \* the file of the history -a that was the previous
                          \* non-blank command, when it opened its file
  persisted,              \* positions of the history some -a or -w wrote
  fds_at_read,            \* the descriptors open when the line was read
  call,                   \* the function called on its own and its arguments
  result                  \* what that call returned

vars ==
  <<pc, input, nlines, history, last_appended_history, histfile, files, cwd,
    fds, term, exit_code, stdout_log, stderr_log, stage_tokens, n, pfd, pids,
    i, wi, child, pipebuf, reaped, prev_a, persisted, fds_at_read, call,
    result>>

pipeline_vars == <<stage_tokens, n, pfd, pids, i, wi, child, pipebuf, reaped>>

\* The terminal, as an open file description
Tty == [kind |-> "tty", idx |-> 0, end |-> "rw", path |-> <<>>]

\* End e ("r" or "w") of the k-th pipe of the pipeline (k from 0)
pipe_end(k, e) == [kind |-> "pipe", idx |-> k, end |-> e, path |-> <<>>]

\* A data file opened for writing
file_desc(path) == [kind |-> "file", idx |-> 0, end |-> "w", path |-> path]

\* An empty descriptor table
NoFds == <<>>

\* histfile && histfile[0] != '\0'
histfile_set == ~histfile.null /\ histfile.str # <<>>

\* main up to the loop: the cursor is 0 and the history is what read_history
\* loaded from $HISTFILE
ShellInit ==
  /\ histfile \in HistfileValues
  /\ \E h \in InitialHistfiles :
       files = [f \in OpenableFiles |-> IF f = <<"H">> THEN h ELSE NoFile]
  /\ last_appended_history = 0
  /\ history = IF histfile_set
               THEN read_history(<<>>, files, histfile.str) ELSE <<>>
  /\ pc = "prompt"
  /\ input = <<>>
  /\ nlines = 0
  /\ cwd = <<"/">>
  /\ fds = (0 :> Tty) @@ (1 :> Tty) @@ (2 :> Tty)
  /\ term = "running"
  /\ exit_code = 0
  /\ stdout_log = <<>>
  /\ stderr_log = <<>>
  /\ stage_tokens = <<>>
  /\ n = 0
  /\ pfd = <<>>
  /\ pids = <<>>
  /\ i = 0
  /\ wi = 0
  /\ child = <<>>
  /\ pipebuf = <<>>
  /\ reaped = <<>>
  /\ prev_a = <<>>
  /\ persisted = {}
  /\ fds_at_read = {0, 1, 2}

\* No function is called on its own
NoCall == [fn |-> "none"]

\* The shell as main starts it
Init == ShellInit /\ call = NoCall /\ result = <<>>

\* ------------------------------------------------------------------------
\* The REPL
\* ------------------------------------------------------------------------

\* A variant of non_blank that takes only the space for blank
non_blank_space_only(line) == find_first_not_of(line, {" "}, 1) # npos

\* input.find_first_not_of(" \t\n") != npos
non_blank(line) == find_first_not_of(line, {" ", "\t", "\n"}, 1) # npos

\* readline returns a line: it is added to the history when it is not
\* blank; the locals of the loop body start afresh.
ReadLine(L) ==
  /\ pc = "prompt"
  /\ nlines < MaxLines
  /\ \E line \in L :
       /\ input' = line
       /\ history' = IF non_blank(line) THEN add_history(history, line)
                     ELSE history
  /\ nlines' = nlines + 1
  /\ pc' = "dispatch"
  /\ stage_tokens' = <<>>
  /\ n' = 0 /\ pfd' = <<>> /\ pids' = <<>> /\ i' = 0 /\ wi' = 0
  /\ child' = <<>> /\ pipebuf' = <<>> /\ reaped' = <<>>
  /\ fds_at_read' = DOMAIN fds
  /\ UNCHANGED <<last_appended_history, histfile, files, cwd, fds, term,
                 exit_code, stdout_log, stderr_log, prev_a, persisted>>
  /\ UNCHANGED <<call, result>>

\* readline returns NULL: the loop ends, the history is saved to $HISTFILE
\* and main returns 0.
ReadEOF ==
  /\ pc = "prompt"
  /\ files' = IF histfile_set
              THEN write_history(history, files, histfile.str) ELSE files
  /\ pc' = "done"
  /\ term' = "eof"
  /\ exit_code' = 0
  /\ fds' = NoFds
  /\ UNCHANGED <<input, nlines, history, last_appended_history, histfile, cwd,
                 stdout_log, stderr_log, pipeline_vars, prev_a, persisted,
                 fds_at_read>>
  /\ UNCHANGED <<call, result>>

\* input.find('|') != npos
has_pipe(line) == find_from(line, "|", 1) # npos

\* The dispatch of a line without '|' whose first word is cmd
Dispatching(cmd) ==
  /\ pc = "dispatch"
  /\ ~has_pipe(input)
  /\ iss_word(input, 1) = cmd

\* return 1 from main: the process ends, nothing is saved
Return1(site) ==
  /\ pc' = "done"
  /\ term' = site
  /\ exit_code' = 1
  /\ fds' = NoFds

\* continue: back to the prompt
Continue ==
  /\ pc' = "prompt"
  /\ UNCHANGED <<term, exit_code, fds>>

\* Builtin exit: save the history, then exit with the argument's value;
\* std::stoi throws on a non-numeric argument and nothing catches it.
Exit ==
  /\ Dispatching(w_exit)
  /\ LET arg == iss_word(input, 2)
         r   == stoi(arg)
     IN /\ files' = IF histfile_set
                    THEN write_history(history, files, histfile.str)
                    ELSE files
        /\ term' = IF arg = <<>> \/ r.ok THEN "exit" ELSE "abort"
        /\ exit_code' = IF arg = <<>> THEN 0
                        ELSE IF r.ok THEN r.value % 256 ELSE 134
  /\ pc' = "done"
  /\ fds' = NoFds
  /\ prev_a' = <<>>
  /\ UNCHANGED <<input, nlines, history, last_appended_history, histfile, cwd,
                 stdout_log, stderr_log, pipeline_vars, persisted,
                 fds_at_read>>
  /\ UNCHANGED <<call, result>>

\* Builtin echo, with its redirections
Echo ==
  /\ Dispatching(w_echo)
  /\ LET tokens == tokenize(substr(input, find_str(input, w_echo, 1) + 4))
         r      == parse_redirection(tokens)
         out_ok == can_open_write(r.redirect_file)
         err_ok == can_open_write(r.redirect_stderr_file)
         fs1    == IF r.redirect_file # <<>> /\ out_ok
                   THEN open_file(files, r.redirect_file, r.append_mode)
                   ELSE files
         fs2    == IF r.redirect_stderr_file # <<>> /\ err_ok
                   THEN open_file(fs1, r.redirect_stderr_file,
                                  r.append_stderr_mode)
                   ELSE fs1
         text   == join_tokens(r.tokens, 1)
     IN IF r.redirect_file # <<>> /\ ~out_ok
        THEN /\ stderr_log' = Append(stderr_log, msg_redirect \o r.redirect_file)
             /\ Return1("echo_redirect")
             /\ UNCHANGED <<files, stdout_log>>
        ELSE IF r.redirect_stderr_file # <<>> /\ ~err_ok
        THEN /\ stderr_log' = Append(stderr_log,
                                msg_redirect_stderr \o r.redirect_stderr_file)
             /\ files' = fs1
             /\ Return1("echo_redirect_stderr")
             /\ UNCHANGED stdout_log
        ELSE /\ IF r.redirect_file # <<>>
                THEN /\ files' = append_data(fs2, r.redirect_file,
                                             text \o <<"\n">>)
                     /\ UNCHANGED stdout_log
                ELSE /\ files' = fs2
                     /\ stdout_log' = Append(stdout_log, text)
             /\ Continue
             /\ UNCHANGED stderr_log
  /\ prev_a' = <<>>
  /\ UNCHANGED <<input, nlines, history, last_appended_history, histfile, cwd,
                 pipeline_vars, persisted, fds_at_read>>
  /\ UNCHANGED <<call, result>>

\* What type prints for arg
type_text(arg) ==
  IF is_builtin(arg) THEN arg \o msg_builtin
  ELSE IF lookup(arg).found THEN arg \o msg_is \o lookup(arg).full_path
  ELSE arg \o msg_not_found

\* Builtin type
Type ==
  /\ Dispatching(w_type)
  /\ LET arg == iss_word(input, 2)
     IN stdout_log' = Append(stdout_log,
          IF is_builtin(arg) \/ arg # <<>> THEN type_text(arg)
          ELSE msg_type_missing)
  /\ Continue
  /\ prev_a' = <<>>
  /\ UNCHANGED <<input, nlines, history, last_appended_history, histfile,
                 files, cwd, stderr_log, pipeline_vars, persisted, fds_at_read>>
  /\ UNCHANGED <<call, result>>

\* history -r F: read_history(F)
HistoryRead ==
  /\ Dispatching(w_history)
  /\ iss_word(input, 2) = <<"-", "r">>
  /\ iss_word(input, 3) # <<>>
  /\ history' = read_history(history, files, iss_word(input, 3))
  /\ Continue
  /\ prev_a' = <<>>
  /\ UNCHANGED <<input, nlines, last_appended_history, histfile, files, cwd,
                 stdout_log, stderr_log, pipeline_vars, persisted, fds_at_read>>
  /\ UNCHANGED <<call, result>>

\* A variant of HistoryWrite whose cursor is one past history_length
HistoryWrite_OffByOne ==
  /\ Dispatching(w_history)
  /\ iss_word(input, 2) = <<"-", "w">>
  /\ iss_word(input, 3) # <<>>
  /\ files' = write_history(history, files, iss_word(input, 3))
  /\ last_appended_history' = Len(history) + 1
  /\ persisted' = IF can_open_write(iss_word(input, 3))
                  THEN persisted \cup (1..Len(history)) ELSE persisted
  /\ Continue
  /\ prev_a' = <<>>
  /\ UNCHANGED <<input, nlines, history, histfile, cwd, stdout_log,
                 stderr_log, pipeline_vars, fds_at_read>>
  /\ UNCHANGED <<call, result>>

\* history -w F: write_history(F), then the cursor is history_length
HistoryWrite ==
  /\ Dispatching(w_history)
  /\ iss_word(input, 2) = <<"-", "w">>
  /\ iss_word(input, 3) # <<>>
  /\ files' = write_history(history, files, iss_word(input, 3))
  /\ last_appended_history' = Len(history)
  /\ persisted' = IF can_open_write(iss_word(input, 3))
                  THEN persisted \cup (1..Len(history)) ELSE persisted
  /\ Continue
  /\ prev_a' = <<>>
  /\ UNCHANGED <<input, nlines, history, histfile, cwd, stdout_log,
                 stderr_log, pipeline_vars, fds_at_read>>
  /\ UNCHANGED <<call, result>>

\* A variant of HistoryAppend whose loop starts at entry 0
HistoryAppend_FromStart ==
  /\ Dispatching(w_history)
  /\ iss_word(input, 2) = <<"-", "a">>
  /\ iss_word(input, 3) # <<>>
  /\ LET arg2  == iss_word(input, 3)
         total == Len(history)
     IN IF total > 0 /\ can_open_write(arg2)
        THEN /\ files' = append_data(open_file(files, arg2, TRUE), arg2,
                           entry_lines(history, 0, total))
             /\ last_appended_history' = total
             /\ persisted' = persisted \cup ((last_appended_history + 1)..total)
             /\ prev_a' = arg2
        ELSE /\ UNCHANGED <<files, last_appended_history, persisted>>
             /\ prev_a' = <<>>
  /\ Continue
  /\ UNCHANGED <<input, nlines, history, histfile, cwd, stdout_log,
                 stderr_log, pipeline_vars, fds_at_read>>
  /\ UNCHANGED <<call, result>>

\* A variant of HistoryAppend that leaves the cursor where it was
HistoryAppend_NoAdvance ==
  /\ Dispatching(w_history)
  /\ iss_word(input, 2) = <<"-", "a">>
  /\ iss_word(input, 3) # <<>>
  /\ LET arg2  == iss_word(input, 3)
         total == Len(history)
     IN IF total > 0 /\ can_open_write(arg2)
        THEN /\ files' = append_data(open_file(files, arg2, TRUE), arg2,
                           entry_lines(history, last_appended_history, total))
             /\ persisted' = persisted \cup ((last_appended_history + 1)..total)
             /\ prev_a' = arg2
             /\ UNCHANGED last_appended_history
        ELSE /\ UNCHANGED <<files, last_appended_history, persisted>>
             /\ prev_a' = <<>>
  /\ Continue
  /\ UNCHANGED <<input, nlines, history, histfile, cwd, stdout_log,
                 stderr_log, pipeline_vars, fds_at_read>>
  /\ UNCHANGED <<call, result>>

\* history -a F: the entries from the cursor on are appended to F and the
\* cursor moves to the end, when history_list() is not NULL and F opens
HistoryAppend ==
  /\ Dispatching(w_history)
  /\ iss_word(input, 2) = <<"-", "a">>
  /\ iss_word(input, 3) # <<>>
  /\ LET arg2  == iss_word(input, 3)
         total == Len(history)
     IN IF total > 0 /\ can_open_write(arg2)
        THEN /\ files' = append_data(open_file(files, arg2, TRUE), arg2,
                           entry_lines(history, last_appended_history, total))
             /\ last_appended_history' = total
             /\ persisted' = persisted \cup ((last_appended_history + 1)..total)
             /\ prev_a' = arg2
        ELSE /\ UNCHANGED <<files, last_appended_history, persisted>>
             /\ prev_a' = <<>>
  /\ Continue
  /\ UNCHANGED <<input, nlines, history, histfile, cwd, stdout_log,
                 stderr_log, pipeline_vars, fds_at_read>>
  /\ UNCHANGED <<call, result>>

RECURSIVE history_text(_, _, _)
\* The lines history prints for the entries from start (0-based) on
history_text(hist, start, total) ==
  IF start >= total THEN <<>>
  ELSE <<<<" ", " ", " ", " ">> \o to_string(start + 1) \o <<" ", " ">>
         \o hist[start + 1]>>
       \o history_text(hist, start + 1, total)

\* history [N]: print the list, or its last N entries
HistoryPrint ==
  /\ Dispatching(w_history)
  /\ LET arg1 == iss_word(input, 2)
         arg2 == iss_word(input, 3)
         r    == stoi(arg1)
         num  == IF arg1 # <<>> /\ arg1 # <<"-", "r">> /\ arg1 # <<"-", "w">>
                    /\ r.ok
                 THEN r.value ELSE 0 - 1
         total == Len(history)
         start == IF num > 0 /\ num < total THEN total - num ELSE 0
     IN /\ ~(arg1 \in {<<"-", "r">>, <<"-", "w">>, <<"-", "a">>} /\ arg2 # <<>>)
        /\ stdout_log' = stdout_log \o history_text(history, start, total)
  /\ Continue
  /\ prev_a' = <<>>
  /\ UNCHANGED <<input, nlines, history, last_appended_history, histfile,
                 files, cwd, stderr_log, pipeline_vars, persisted, fds_at_read>>
  /\ UNCHANGED <<call, result>>

\* Builtin pwd
Pwd ==
  /\ Dispatching(w_pwd)
  /\ stdout_log' = Append(stdout_log, cwd)
  /\ Continue
  /\ prev_a' = <<>>
  /\ UNCHANGED <<input, nlines, history, last_appended_history, histfile,
                 files, cwd, stderr_log, pipeline_vars, persisted, fds_at_read>>
  /\ UNCHANGED <<call, result>>

\* chdir(path) succeeds on a directory (the model's paths are absolute)
chdir_ok(path) == path \in Directories

\* Builtin cd
Cd ==
  /\ Dispatching(w_cd)
  /\ LET path   == iss_word(input, 2)
         target == IF path = <<"~">> THEN HOME_env ELSE path
     IN IF path = <<>>
        THEN UNCHANGED <<cwd, stderr_log>>
        ELSE IF chdir_ok(target)
        THEN cwd' = target /\ UNCHANGED stderr_log
        ELSE /\ stderr_log' = Append(stderr_log, msg_cd \o path \o msg_no_dir)
             /\ UNCHANGED cwd
  /\ Continue
  /\ prev_a' = <<>>
  /\ UNCHANGED <<input, nlines, history, last_appended_history, histfile,
                 files, stdout_log, pipeline_vars, persisted, fds_at_read>>
  /\ UNCHANGED <<call, result>>

\* ------------------------------------------------------------------------
\* Descriptors and processes
\* ------------------------------------------------------------------------

RECURSIVE lowest_free(_, _)
\* The lowest descriptor number not open in tab, from fd up: what pipe, open
\* and dup return
lowest_free(tab, fd) ==
  IF fd \notin DOMAIN tab THEN fd ELSE lowest_free(tab, fd + 1)

\* dup2(old, new) in the table tab
dup2(tab, old, new) ==
  [fd \in DOMAIN tab \cup {new} |-> IF fd = new THEN tab[old] ELSE tab[fd]]

\* for (j = 0; j < 2 * (n - 1); ++j) close(pfd[j])
close_all(tab, fdlist) ==
  [fd \in DOMAIN tab \ {fdlist[j] : j \in DOMAIN fdlist} |-> tab[fd]]

\* Some descriptor of the table refers to the open file description desc
holds(tab, desc) == \E fd \in DOMAIN tab : tab[fd] = desc

\* Some process, the shell or a child, holds desc open
has_holder(desc) ==
  \/ holds(fds, desc)
  \/ \E p \in DOMAIN child : holds(child[p].fds, desc)

\* A process just forked: it has a copy of the shell's descriptors and of
\* its memory, here the tokens and the redirection targets of its command
new_child(kind, stage, plan) ==
  [kind |-> kind, st |-> "forked", stage |-> stage, fds |-> fds,
   tokens |-> plan.tokens,
   redirect_file |-> plan.redirect_file, append_mode |-> plan.append_mode,
   redirect_stderr_file |-> plan.redirect_stderr_file,
   append_stderr_mode |-> plan.append_stderr_mode,
   reads |-> FALSE, eof |-> FALSE, writes |-> 0, status |-> "none",
   out |-> <<>>, err |-> <<>>]

\* The tokens of a pipeline stage: the pipeline branch looks for no
\* redirection
no_redirection(tokens) ==
  [tokens |-> tokens, redirect_file |-> <<>>, append_mode |-> FALSE,
   redirect_stderr_file |-> <<>>, append_stderr_mode |-> FALSE]

\* exit(status) or death by a signal: every descriptor of the process closes
exited(c, status) == [c EXCEPT !.st = "exited", !.fds = NoFds, !.status = status]

Pids == 1..MaxStages

\* ------------------------------------------------------------------------
\* The pipeline branch, in the shell process
\* ------------------------------------------------------------------------

\* A variant of PipelineStart in which the shell itself runs the cd of the
\* first stage
PipelineStart_CdInShell ==
  /\ pc = "dispatch"
  /\ has_pipe(input)
  /\ stage_tokens' = pipeline_tokens(input)
  /\ n' = Len(stage_tokens')
  /\ pfd' = [j \in 1..(2 * (n' - 1)) |-> 0]
  /\ i' = 0
  /\ pc' = "pipe"
  /\ prev_a' = <<>>
  /\ cwd' = IF /\ Len(stage_tokens'[1]) >= 2
               /\ stage_tokens'[1][1] = w_cd
               /\ stage_tokens'[1][2] \in Directories
            THEN stage_tokens'[1][2] ELSE cwd
  /\ UNCHANGED <<input, nlines, history, last_appended_history, histfile,
                 files, fds, term, exit_code, stdout_log, stderr_log,
                 pids, wi, child, pipebuf, reaped, persisted, fds_at_read>>
  /\ UNCHANGED <<call, result>>

\* The line holds a '|': split it into stages and size pfd
PipelineStart ==
  /\ pc = "dispatch"
  /\ has_pipe(input)
  /\ stage_tokens' = pipeline_tokens(input)
  /\ n' = Len(stage_tokens')
  /\ pfd' = [j \in 1..(2 * (n' - 1)) |-> 0]
  /\ i' = 0
  /\ pc' = "pipe"
  /\ prev_a' = <<>>
  /\ UNCHANGED <<input, nlines, history, last_appended_history, histfile,
                 files, cwd, fds, term, exit_code, stdout_log, stderr_log,
                 pids, wi, child, pipebuf, reaped, persisted, fds_at_read>>
  /\ UNCHANGED <<call, result>>

\* pipe(&pfd[2 * i]) succeeds: two new descriptors, the read end first
PipeOk ==
  /\ pc = "pipe"
  /\ i < n - 1
  /\ LET r == lowest_free(fds, 0)
         w == lowest_free(fds @@ (r :> Tty), 0)
     IN /\ fds' = fds @@ (r :> pipe_end(i, "r")) @@ (w :> pipe_end(i, "w"))
        /\ pfd' = [pfd EXCEPT ![2 * i + 1] = r, ![2 * i + 2] = w]
  /\ pipebuf' = Append(pipebuf, 0)
  /\ i' = IF i + 1 < n - 1 THEN i + 1 ELSE 0
  /\ pc' = IF i + 1 < n - 1 THEN "pipe" ELSE "fork"
  /\ UNCHANGED <<input, nlines, history, last_appended_history, histfile,
                 files, cwd, term, exit_code, stdout_log, stderr_log, stage_tokens, n, pids,
                 wi, child, reaped, prev_a, persisted, fds_at_read>>
  /\ UNCHANGED <<call, result>>

\* pipe fails: a message, and main returns 1
PipeFail ==
  /\ pc = "pipe"
  /\ i < n - 1
  /\ stderr_log' = Append(stderr_log, msg_pipe)
  /\ Return1("pipe_failed")
  /\ UNCHANGED <<input, nlines, history, last_appended_history, histfile,
                 files, cwd, stdout_log, pipeline_vars, prev_a, persisted,
                 fds_at_read>>
  /\ UNCHANGED <<call, result>>

\* fork succeeds for stage i: the child is recorded in pids
ForkOk ==
  /\ pc = "fork"
  /\ i < n
  /\ child' = Append(child,
       new_child("stage", i, no_redirection(stage_tokens[i + 1])))
  /\ pids' = Append(pids, Len(child) + 1)
  /\ i' = i + 1
  /\ pc' = IF i + 1 < n THEN "fork" ELSE "close"
  /\ UNCHANGED <<input, nlines, history, last_appended_history, histfile,
                 files, cwd, fds, term, exit_code, stdout_log, stderr_log, stage_tokens, n,
                 pfd, wi, pipebuf, reaped, prev_a, persisted, fds_at_read>>
  /\ UNCHANGED <<call, result>>

\* fork fails for stage i: a message, the pipes are closed, main returns 1
ForkFail ==
  /\ pc = "fork"
  /\ i < n
  /\ stderr_log' = Append(stderr_log, msg_fork)
  /\ Return1("fork_failed")
  /\ UNCHANGED <<input, nlines, history, last_appended_history, histfile,
                 files, cwd, stdout_log, pipeline_vars, prev_a, persisted,
                 fds_at_read>>
  /\ UNCHANGED <<call, result>>

\* A variant of CloseAll that closes nothing before the waits
CloseAll_NoClose ==
  /\ pc = "close"
  /\ wi' = 0
  /\ pc' = "wait"
  /\ UNCHANGED <<input, nlines, history, last_appended_history, histfile,
                 files, cwd, fds, term, exit_code, stdout_log, stderr_log,
                 stage_tokens, n, pfd, pids, i, child, pipebuf, reaped, prev_a,
                 persisted, fds_at_read>>
  /\ UNCHANGED <<call, result>>

\* A variant of CloseAll whose loop runs to n - 1 instead of 2 * (n - 1)
CloseAll_HalfLoop ==
  /\ pc = "close"
  /\ fds' = close_all(fds, SubSeq(pfd, 1, n - 1))
  /\ wi' = 0
  /\ pc' = "wait"
  /\ UNCHANGED <<input, nlines, history, last_appended_history, histfile,
                 files, cwd, term, exit_code, stdout_log, stderr_log,
                 stage_tokens, n, pfd, pids, i, child, pipebuf, reaped, prev_a,
                 persisted, fds_at_read>>
  /\ UNCHANGED <<call, result>>

\* After the fork loop the shell closes every pipe descriptor
CloseAll ==
  /\ pc = "close"
  /\ fds' = close_all(fds, pfd)
  /\ wi' = 0
  /\ pc' = "wait"
  /\ UNCHANGED <<input, nlines, history, last_appended_history, histfile,
                 files, cwd, term, exit_code, stdout_log, stderr_log, stage_tokens, n, pfd,
                 pids, i, child, pipebuf, reaped, prev_a, persisted,
                 fds_at_read>>
  /\ UNCHANGED <<call, result>>

\* The child the wait loop waits for next
wait_pid == pids[wi + 1]

\* waitpid(pid, &status, 0) returns once that child has ended; after the
\* last one the loop body continues to the prompt
Wait ==
  /\ pc = "wait"
  /\ wi < Len(pids)
  /\ child[wait_pid].st = "exited"
  /\ child' = [child EXCEPT ![wait_pid].st = "reaped"]
  /\ reaped' = Append(reaped, wait_pid)
  /\ wi' = wi + 1
  /\ pc' = IF wi + 1 < Len(pids) THEN "wait" ELSE "prompt"
  /\ UNCHANGED <<input, nlines, history, last_appended_history, histfile,
                 files, cwd, fds, term, exit_code, stdout_log, stderr_log, stage_tokens, n,
                 pfd, pids, i, pipebuf, prev_a, persisted, fds_at_read>>
  /\ UNCHANGED <<call, result>>

\* ------------------------------------------------------------------------
\* A pipeline stage, in its child process
\* ------------------------------------------------------------------------

\* A variant of stage_fds that keeps the inherited pipe descriptors open
stage_fds_keep(tab, s) ==
  LET t1 == IF s > 0 THEN dup2(tab, pfd[2 * (s - 1) + 1], 0) ELSE tab
  IN IF s < n - 1 THEN dup2(t1, pfd[2 * s + 2], 1) ELSE t1

\* A variant of stage_fds that takes the stdin from the write end of the
\* pipe before the stage
stage_fds_write_end(tab, s) ==
  LET t1 == IF s > 0 THEN dup2(tab, pfd[2 * (s - 1) + 2], 0) ELSE tab
      t2 == IF s < n - 1 THEN dup2(t1, pfd[2 * s + 2], 1) ELSE t1
  IN close_all(t2, pfd)

\* The child of stage s wires its stdin and stdout to the pipes and closes
\* every pipe descriptor it inherited
stage_fds(tab, s) ==
  LET t1 == IF s > 0 THEN dup2(tab, pfd[2 * (s - 1) + 1], 0) ELSE tab
      t2 == IF s < n - 1 THEN dup2(t1, pfd[2 * s + 2], 1) ELSE t1
  IN close_all(t2, pfd)

ChildSetup(p) ==
  /\ p \in DOMAIN child
  /\ child[p].kind = "stage"
  /\ child[p].st = "forked"
  /\ child' = [child EXCEPT ![p].fds = stage_fds(child[p].fds, child[p].stage),
                            ![p].st = "run"]
  /\ UNCHANGED <<pc, input, nlines, history, last_appended_history, histfile,
                 files, cwd, fds, term, exit_code, stdout_log, stderr_log, stage_tokens, n,
                 pfd, pids, i, wi, pipebuf, reaped, prev_a, persisted,
                 fds_at_read>>
  /\ UNCHANGED <<call, result>>

\* The process c writes one block to its stdout: it dies of SIGPIPE when
\* stdout is a pipe nobody can read
sigpipe(c) ==
  /\ c.fds[1].kind = "pipe"
  /\ ~has_holder(pipe_end(c.fds[1].idx, "r"))

\* The pipe buffers after c wrote one block to its stdout
buf_after_write(c) ==
  IF c.fds[1].kind = "pipe"
  THEN [pipebuf EXCEPT ![c.fds[1].idx + 1] = @ + 1]
  ELSE pipebuf

\* What the echo and type stages print
stage_text(tokens) ==
  IF tokens[1] = w_echo THEN join_tokens(SubSeq(tokens, 2, Len(tokens)), 1)
  ELSE IF Len(tokens) < 2 THEN msg_type_missing
  ELSE type_text(tokens[2])

\* The path a command name resolves to: the name itself when it holds a '/'
resolve(name) ==
  IF find_from(name, "/", 1) # npos
  THEN [found |-> TRUE, full_path |-> name]
  ELSE lookup(name)

\* The stage's code after the wiring: echo and type print and exit 0, an
\* empty stage exits 0, anything else is looked up and executed with execv
ChildRun(p) ==
  /\ p \in DOMAIN child
  /\ child[p].kind = "stage"
  /\ child[p].st = "run"
  /\ LET c      == child[p]
         tokens == c.tokens
         r      == resolve(tokens[1])
     IN IF tokens # <<>> /\ tokens[1] \in {w_echo, w_type}
        THEN IF sigpipe(c)
             THEN /\ child' = [child EXCEPT ![p] = exited(c, "SIGPIPE")]
                  /\ UNCHANGED pipebuf
             ELSE /\ child' = [child EXCEPT
                       ![p] = exited([c EXCEPT !.out = stage_text(tokens)], "0")]
                  /\ pipebuf' = buf_after_write(c)
        ELSE IF tokens = <<>>
        THEN /\ child' = [child EXCEPT ![p] = exited(c, "0")]
             /\ UNCHANGED pipebuf
        ELSE IF ~r.found
        THEN /\ child' = [child EXCEPT
                  ![p] = exited([c EXCEPT !.err = tokens[1] \o msg_cmd_not_found],
                                "1")]
             /\ UNCHANGED pipebuf
        ELSE IF ~execv_ok(r.full_path)
        THEN /\ child' = [child EXCEPT
                  ![p] = exited([c EXCEPT !.err = msg_exec \o r.full_path], "1")]
             /\ UNCHANGED pipebuf
        ELSE /\ \E reads \in BOOLEAN, writes \in 0..MaxWrites :
                  child' = [child EXCEPT ![p].st = "prog", ![p].reads = reads,
                                         ![p].writes = writes]
             /\ UNCHANGED pipebuf
  /\ UNCHANGED <<pc, input, nlines, history, last_appended_history, histfile,
                 files, cwd, fds, term, exit_code, stdout_log, stderr_log, stage_tokens, n,
                 pfd, pids, i, wi, reaped, prev_a, persisted, fds_at_read>>
  /\ UNCHANGED <<call, result>>

\* ------------------------------------------------------------------------
\* An executed program: it reads its stdin to the end or ignores it, writes
\* some blocks to its stdout and exits
\* ------------------------------------------------------------------------

\* read(0): a block of the pipe, or end of file once the pipe is empty and
\* no process holds its write end; the terminal is at end of file
ProgRead(p) ==
  /\ p \in DOMAIN child
  /\ child[p].st = "prog"
  /\ child[p].reads
  /\ ~child[p].eof
  /\ LET in == child[p].fds[0]
     IN IF in.kind = "pipe"
        THEN IF pipebuf[in.idx + 1] > 0
             THEN /\ pipebuf' = [pipebuf EXCEPT ![in.idx + 1] = @ - 1]
                  /\ UNCHANGED child
             ELSE /\ ~has_holder(pipe_end(in.idx, "w"))
                  /\ child' = [child EXCEPT ![p].eof = TRUE]
                  /\ UNCHANGED pipebuf
        ELSE /\ child' = [child EXCEPT ![p].eof = TRUE]
             /\ UNCHANGED pipebuf
  /\ UNCHANGED <<pc, input, nlines, history, last_appended_history, histfile,
                 files, cwd, fds, term, exit_code, stdout_log, stderr_log, stage_tokens, n,
                 pfd, pids, i, wi, reaped, prev_a, persisted, fds_at_read>>
  /\ UNCHANGED <<call, result>>

\* write(1): the block goes into the pipe when it has room; the writer dies
\* of SIGPIPE when no process holds the read end
ProgWrite(p) ==
  /\ p \in DOMAIN child
  /\ child[p].st = "prog"
  /\ child[p].writes > 0
  /\ LET c == child[p]
     IN IF sigpipe(c)
        THEN /\ child' = [child EXCEPT ![p] = exited(c, "SIGPIPE")]
             /\ UNCHANGED pipebuf
        ELSE /\ c.fds[1].kind = "pipe" => pipebuf[c.fds[1].idx + 1] < PipeCap
             /\ child' = [child EXCEPT ![p].writes = @ - 1]
             /\ pipebuf' = buf_after_write(c)
  /\ UNCHANGED <<pc, input, nlines, history, last_appended_history, histfile,
                 files, cwd, fds, term, exit_code, stdout_log, stderr_log, stage_tokens, n,
                 pfd, pids, i, wi, reaped, prev_a, persisted, fds_at_read>>
  /\ UNCHANGED <<call, result>>

\* The program is done with its input and its output: it exits
ProgExit(p) ==
  /\ p \in DOMAIN child
  /\ child[p].st = "prog"
  /\ child[p].reads => child[p].eof
  /\ child[p].writes = 0
  /\ child' = [child EXCEPT ![p] = exited(child[p], "0")]
  /\ UNCHANGED <<pc, input, nlines, history, last_appended_history, histfile,
                 files, cwd, fds, term, exit_code, stdout_log, stderr_log, stage_tokens, n,
                 pfd, pids, i, wi, pipebuf, reaped, prev_a, persisted,
                 fds_at_read>>
  /\ UNCHANGED <<call, result>>

\* ------------------------------------------------------------------------
\* An external command outside a pipeline
\* ------------------------------------------------------------------------

\* The first word is none of the builtins the dispatch chain tests for
external_branch ==
  /\ pc = "dispatch"
  /\ ~has_pipe(input)
  /\ iss_word(input, 1) \notin builtins

\* The line is tokenized; no token: continue. Else the redirections are
\* taken out of the tokens and the shell forks, then waits for the child.
External ==
  /\ external_branch
  /\ IF tokenize(input) = <<>>
     THEN /\ Continue
          /\ UNCHANGED <<child, prev_a>>
     ELSE /\ child' = <<new_child("external", 0,
                                 parse_redirection(tokenize(input)))>>
          /\ pc' = "extwait"
          /\ prev_a' = <<>>
          /\ UNCHANGED <<term, exit_code, fds>>
  /\ UNCHANGED <<input, nlines, history, last_appended_history, histfile,
                 files, cwd, stdout_log, stderr_log, stage_tokens, n, pfd, pids, i, wi,
                 pipebuf, reaped, persisted, fds_at_read>>
  /\ UNCHANGED <<call, result>>

\* fork fails: a message, and the loop goes on
ExternalForkFail ==
  /\ external_branch
  /\ tokenize(input) # <<>>
  /\ stderr_log' = Append(stderr_log, msg_fork)
  /\ Continue
  /\ prev_a' = <<>>
  /\ UNCHANGED <<input, nlines, history, last_appended_history, histfile,
                 files, cwd, stdout_log, pipeline_vars, persisted, fds_at_read>>
  /\ UNCHANGED <<call, result>>

\* The child: resolve tokens[0], open the redirection targets, execv. With
\* no token left after the redirections, the read of tokens[0] is out of
\* bounds: the child may crash, or go on with the stale bytes of an erased
\* token (an operator or a target) as the name, find no such program and
\* exit with 1.
ExtChildRun(p) ==
  /\ p \in DOMAIN child
  /\ child[p].kind = "external"
  /\ child[p].st = "forked"
  /\ LET c      == child[p]
         plan   == c
         r      == resolve(plan.tokens[1])
         out_ok == can_open_write(plan.redirect_file)
         err_ok == can_open_write(plan.redirect_stderr_file)
         fs1    == IF plan.redirect_file # <<>>
                   THEN open_file(files, plan.redirect_file, plan.append_mode)
                   ELSE files
         fs2    == IF plan.redirect_stderr_file # <<>>
                   THEN open_file(fs1, plan.redirect_stderr_file,
                                  plan.append_stderr_mode)
                   ELSE fs1
         t1     == IF plan.redirect_file # <<>>
                   THEN dup2(c.fds @@ (3 :> file_desc(plan.redirect_file)), 3, 1)
                   ELSE c.fds
         t2     == IF plan.redirect_stderr_file # <<>>
                   THEN dup2(t1 @@ (3 :> file_desc(plan.redirect_stderr_file)),
                             3, 2)
                   ELSE t1
     IN IF plan.tokens = <<>>
        THEN /\ \E status \in {"SIGSEGV", "1"} :
                  child' = [child EXCEPT ![p] = exited(c, status)]
             /\ UNCHANGED files
        ELSE IF ~r.found
        THEN /\ child' = [child EXCEPT
                  ![p] = exited([c EXCEPT
                           !.err = plan.tokens[1] \o msg_cmd_not_found], "1")]
             /\ UNCHANGED files
        ELSE IF plan.redirect_file # <<>> /\ ~out_ok
        THEN /\ child' = [child EXCEPT
                  ![p] = exited([c EXCEPT
                           !.err = msg_redirect \o plan.redirect_file], "1")]
             /\ UNCHANGED files
        ELSE IF plan.redirect_stderr_file # <<>> /\ ~err_ok
        THEN /\ child' = [child EXCEPT
                  ![p] = exited([c EXCEPT
                           !.err = msg_redirect_stderr
                                   \o plan.redirect_stderr_file], "1")]
             /\ files' = fs1
        ELSE IF ~execv_ok(r.full_path)
        THEN /\ child' = [child EXCEPT
                  ![p] = exited([c EXCEPT !.err = msg_exec \o r.full_path], "1")]
             /\ files' = fs2
        ELSE /\ \E reads \in BOOLEAN, writes \in 0..MaxWrites :
                  child' = [child EXCEPT
                    ![p].st = "prog", ![p].reads = reads, ![p].writes = writes,
                    ![p].fds = [fd \in DOMAIN t2 \ {3} |-> t2[fd]]]
             /\ files' = fs2
  /\ UNCHANGED <<pc, input, nlines, history, last_appended_history, histfile,
                 cwd, fds, term, exit_code, stdout_log, stderr_log, stage_tokens, n, pfd,
                 pids, i, wi, pipebuf, reaped, prev_a, persisted, fds_at_read>>
  /\ UNCHANGED <<call, result>>

\* waitpid(pid, &status, 0) on the one child, then the loop goes on
ExternalWait ==
  /\ pc = "extwait"
  /\ child[1].st = "exited"
  /\ child' = [child EXCEPT ![1].st = "reaped"]
  /\ Continue
  /\ UNCHANGED <<input, nlines, history, last_appended_history, histfile,
                 files, cwd, stdout_log, stderr_log, stage_tokens, n, pfd, pids, i, wi,
                 pipebuf, reaped, prev_a, persisted, fds_at_read>>
  /\ UNCHANGED <<call, result>>

\* ------------------------------------------------------------------------
\* The specifications
\* ------------------------------------------------------------------------

\* A step of the shell process inside the pipeline or external branch
ShellStep ==
  \/ PipeOk
  \/ PipeFail
  \/ ForkOk
  \/ ForkFail
  \/ CloseAll
  \/ Wait
  \/ ExternalWait

\* A step of the child process p
ChildStep(p) ==
  \/ ChildSetup(p)
  \/ ChildRun(p)
  \/ ExtChildRun(p)
  \/ ProgRead(p)
  \/ ProgWrite(p)
  \/ ProgExit(p)

Next ==
  \/ ReadLine(InputLines)
  \/ ReadEOF
  \/ Exit
  \/ Echo
  \/ Type
  \/ HistoryRead
  \/ HistoryWrite
  \/ HistoryAppend
  \/ HistoryPrint
  \/ Pwd
  \/ Cd
  \/ External
  \/ ExternalForkFail
  \/ PipelineStart
  \/ ShellStep
  \/ \E p \in Pids : ChildStep(p)

Spec == Init /\ [][Next]_vars

\* The operating system schedules every process that can run: the shell
\* process takes its next step and so does every child.
Fairness ==
  /\ WF_vars(ShellStep)
  /\ \A p \in Pids : WF_vars(ChildStep(p))

\* Sessions of executor lines only, with no $HISTFILE
PipeInit ==
  /\ Init
  /\ histfile.null
  /\ ~files[<<"H">>].exists

PipeNext ==
  \/ ReadLine(PipeLines)
  \/ ReadEOF
  \/ External
  \/ ExternalForkFail
  \/ PipelineStart
  \/ ShellStep
  \/ \E p \in Pids : ChildStep(p)

PipeSpec == PipeInit /\ [][PipeNext]_vars /\ Fairness

\* ------------------------------------------------------------------------
\* The helper functions called on their own: the argument is drawn from a
\* bounded set, the call returns, the shell does nothing meanwhile
\* ------------------------------------------------------------------------

shell_vars ==
  <<pc, input, nlines, history, last_appended_history, histfile, files, cwd,
    fds, term, exit_code, stdout_log, stderr_log, stage_tokens, n, pfd, pids,
    i, wi, child, pipebuf, reaped, prev_a, persisted, fds_at_read>>

\* The shell at its first prompt, $HISTFILE unset
Idle == ShellInit /\ histfile.null /\ ~files[<<"H">>].exists

\* The six operator tokens and two other words
ScanTokens ==
  {<<">">>, <<"1", ">">>, <<">", ">">>, <<"1", ">", ">">>, <<"2", ">">>,
   <<"2", ">", ">">>, <<"a">>, <<"b">>}

\* The token lists of at most MaxTokens tokens
TokenLists == UNION {[1..k -> ScanTokens] : k \in 0..MaxTokens}

RedirInit ==
  /\ Idle
  /\ call \in {[fn |-> "redirection_scan", tokens |-> t] : t \in TokenLists}
  /\ result = <<>>

\* The scan loop of the echo builtin and of the external branch runs over
\* the tokens
RedirectionScan ==
  /\ call.fn = "redirection_scan"
  /\ result = <<>>
  /\ result' = <<parse_redirection(call.tokens)>>
  /\ UNCHANGED <<call, shell_vars>>

RedirNext == RedirectionScan

RedirSpec == RedirInit /\ [][RedirNext]_vars

\* The characters the lexer tells apart, and two it does not
LexChars == {"a", "n", " ", "'", "\"", "\\", "$", "\n"}

\* The strings of at most MaxLen characters
Strings == UNION {[1..k -> LexChars] : k \in 0..MaxLen}

\* Each string as it is, between single quotes and between double quotes
LexInputs ==
  Strings \cup {<<"'">> \o s \o <<"'">> : s \in Strings}
          \cup {<<"\"">> \o s \o <<"\"">> : s \in Strings}

LexInit ==
  /\ Idle
  /\ call \in {[fn |-> "tokenize", s |-> s] : s \in LexInputs}
  /\ result = <<>>

\* tokenize(s) returns
Tokenize ==
  /\ call.fn = "tokenize"
  /\ result = <<>>
  /\ result' = <<tokenize(call.s)>>
  /\ UNCHANGED <<call, shell_vars>>

LexNext == Tokenize

LexSpec == LexInit /\ [][LexNext]_vars

\* ------------------------------------------------------------------------
\* Completion: the function readline calls for the word under the cursor
\* ------------------------------------------------------------------------

\* The builtins vector in its order
builtins_order == <<w_echo, w_exit, w_history, w_pwd, w_cd, w_type>>

\* The lower-case letters in the order of their codes
Letters ==
  <<"a", "b", "c", "d", "e", "f", "g", "h", "i", "j", "k", "l", "m", "n",
    "o", "p", "q", "r", "s", "t", "u", "v", "w", "x", "y", "z">>

\* The code of a letter, counted from the a
char_code(c) == CHOOSE k \in DOMAIN Letters : Letters[k] = c

\* operator< of std::string: a is a proper prefix of b, or the first
\* character in which they differ is smaller in a
string_less(a, b) ==
  \E k \in 1..Len(b) :
    /\ k <= Len(a) + 1
    /\ SubSeq(a, 1, k - 1) = SubSeq(b, 1, k - 1)
    /\ k = Len(a) + 1 \/ char_code(a[k]) < char_code(b[k])

\* name.compare(0, len, text) == 0
starts_with(name, text) ==
  Len(name) >= Len(text) /\ SubSeq(name, 1, Len(text)) = text

\* std::sort and then erase(std::unique) of the names collected: the names
\* in increasing order, each once
sort_unique(names) ==
  [j \in 1..Cardinality(names) |->
     CHOOSE x \in names :
       Cardinality({y \in names : y = x \/ string_less(y, x)}) = j]

\* readdir(dp) over the directory dir: the names of its files and
\* subdirectories (. and .., both directories, left out)
dir_entries(dir) ==
  {SubSeq(q, Len(dir) + 2, Len(q)) :
     q \in {q \in DOMAIN Programs \cup Directories :
              /\ Len(q) > Len(dir) + 1
              /\ SubSeq(q, 1, Len(dir) + 1) = dir \o <<"/">>
              /\ find_from(q, "/", Len(dir) + 2) = npos}}

\* builtin_generator called until it returns nullptr: the builtins that
\* start with text, in the order of the vector
builtin_generator(text) ==
  SelectSeq(builtins_order, LAMBDA b : starts_with(b, text))

\* external_command_generator called until it returns nullptr: the names in
\* the directories of PATH that opendir opens which start with text, have
\* the owner-execute bit and are no directory, sorted, each once
external_command_generator(text) ==
  LET dirs == split_path(PATH_env, 1, <<>>, <<>>)
  IN sort_unique(
       {name \in UNION {dir_entries(dirs[k]) :
                          k \in {k \in DOMAIN dirs : dirs[k] \in Directories}} :
          /\ starts_with(name, text)
          /\ \E k \in DOMAIN dirs :
               /\ dirs[k] \in Directories
               /\ name \in dir_entries(dirs[k])
               /\ execv_ok(dirs[k] \o <<"/">> \o name)})

\* The longest prefix all the matches share
lcd(matches) ==
  LET k == CHOOSE k \in 0..Len(matches[1]) :
             /\ \A j \in DOMAIN matches :
                  Len(matches[j]) >= k
                  /\ SubSeq(matches[j], 1, k) = SubSeq(matches[1], 1, k)
             /\ \A m \in (k + 1)..Len(matches[1]) :
                  \E j \in DOMAIN matches :
                    Len(matches[j]) < m
                    \/ SubSeq(matches[j], 1, m) # SubSeq(matches[1], 1, m)
  IN SubSeq(matches[1], 1, k)

\* rl_completion_matches of the library: no array without a match, the
\* match alone when it is the only one, otherwise the longest common prefix
\* followed by the matches as the generator gave them
rl_completion_matches(matches) ==
  IF matches = <<>> THEN <<>>
  ELSE IF Len(matches) = 1 THEN matches
  ELSE <<lcd(matches)>> \o matches

\* command_completion: nothing away from the start of the line; otherwise
\* the array of the builtins followed by the array of the PATH executables;
\* bell is TRUE when the function writes "\a"
command_completion(text, start) ==
  LET all_matches ==
        rl_completion_matches(builtin_generator(text))
        \o rl_completion_matches(external_command_generator(text))
  IN IF start # 0 THEN [bell |-> FALSE, matches |-> <<>>]
     ELSE [bell |-> all_matches = <<>>, matches |-> all_matches]

\* The letters the words to complete are made of
PrefixChars == {"c", "e", "h", "l", "x"}

\* The words to complete
Prefixes == UNION {[1..k -> PrefixChars] : k \in 0..MaxPrefix}

CompletionInit ==
  /\ Idle
  /\ call \in {[fn |-> "command_completion", text |-> t, start |-> st] :
                 t \in Prefixes, st \in 0..1}
  /\ result = <<>>

\* std::cout << "\a": the one byte BEL
msg_bell == <<"BEL">>

\* readline calls command_completion(text, start, end)
CommandCompletion ==
  /\ call.fn = "command_completion"
  /\ result = <<>>
  /\ LET r == command_completion(call.text, call.start)
     IN /\ result' = <<r.matches>>
        /\ stdout_log' = IF r.bell THEN Append(stdout_log, msg_bell)
                         ELSE stdout_log
  /\ UNCHANGED <<call, pc, input, nlines, history, last_appended_history,
                 histfile, files, cwd, fds, term, exit_code, stderr_log,
                 stage_tokens, n, pfd, pids, i, wi, child, pipebuf, reaped,
                 prev_a, persisted, fds_at_read>>

CompletionNext == CommandCompletion

CompletionSpec == CompletionInit /\ [][CompletionNext]_vars

\* ------------------------------------------------------------------------
\* Properties
\* ------------------------------------------------------------------------

\* s is an initial segment of t
IsPrefix(s, t) == Len(s) <= Len(t) /\ SubSeq(t, 1, Len(s)) = s

\* No descriptor of the shell process is an end of a pipe
NoPipeInShell == \A fd \in DOMAIN fds : fds[fd].kind # "pipe"

\* The shell is back at the prompt after a pipeline ran to its end
PipelineCompleted == pc = "prompt" /\ n > 0

\* C1: in a pipeline whose pipe and fork calls all succeed, the shell holds
\* no end of any pipe from its first wait on; the children are recorded in
\* spawn order and waitpid returns them in that order; and the shell is at
\* the prompt again only when every child of the pipeline has been reaped.
C1_CloseThenWaitInOrder ==
  /\ pc = "wait" => NoPipeInShell
  /\ reaped # <<>> => NoPipeInShell
  /\ \A k \in DOMAIN pids : child[pids[k]].stage = k - 1
  /\ IsPrefix(reaped, pids)
  /\ PipelineCompleted =>
       /\ Len(pids) = n
       /\ reaped = pids
       /\ \A p \in DOMAIN child : child[p].st = "reaped"

\* A pipeline of four stages over three pipes ran to its end.
C1_Witness ==
  /\ PipelineCompleted
  /\ n = 4
  /\ Len(pfd) = 6
  /\ reaped = <<1, 2, 3, 4>>

\* The shell is inside the pipeline or external-command branch
InExecutor == pc \in {"pipe", "fork", "close", "wait", "extwait"}

\* The child p is alive
Alive(p) == p \in DOMAIN child /\ child[p].st \in {"forked", "run", "prog"}

\* C2: under fair scheduling, with stage programs that ignore their stdin or
\* read it to end of file and that die when they write to a pipe without
\* reader, every pipeline (and every single external command) ends: each
\* child exits and the shell returns to the prompt, unless a pipe or fork
\* call failed.
C2_NoDeadlock ==
  /\ InExecutor ~> (pc = "prompt" \/ term \in {"pipe_failed", "fork_failed"})
  /\ \A p \in Pids : Alive(p) ~> ~Alive(p)

\* A three-stage pipeline ended in which a program read its pipe to end of
\* file and a program was killed writing to a pipe that had lost its reader.
C2_Witness ==
  /\ PipelineCompleted
  /\ n >= 3
  /\ \E p \in DOMAIN child :
       child[p].stage > 0 /\ child[p].reads /\ child[p].eof
  /\ \E p \in DOMAIN child : child[p].status = "SIGPIPE"

\* C3: after a pipeline completes, the descriptors open in the shell are
\* exactly those open before its line was read, none of them a pipe end.
C3_DescriptorHygiene ==
  PipelineCompleted => DOMAIN fds = fds_at_read /\ NoPipeInShell

\* A pipeline that allocated three pipes (six descriptors) has completed.
C3_Witness ==
  /\ PipelineCompleted
  /\ Len(pfd) = 6
  /\ \A j \in DOMAIN pfd : pfd[j] > 2

\* C4, as claimed: a step of the pipeline construction that reports a
\* failure on stderr closes the pipes and goes back to the prompt.
C4_FailureKeepsRepl ==
  [][(pc \in {"pipe", "fork"} /\ stderr_log' # stderr_log)
       => (pc' = "prompt" /\ term' = "running")]_vars

\* C5: the cursor is within the history: 0 <= last_appended <= len.
C5_CursorInRange ==
  /\ 0 <= last_appended_history
  /\ last_appended_history <= Len(history)

\* A history -a on a file that cannot be opened ran with the cursor strictly
\* inside the history.
C5_Witness ==
  /\ pc = "prompt"
  /\ input = line_history_a_bad
  /\ 0 < last_appended_history
  /\ last_appended_history < Len(history)

\* The step in which the builtin history -a F runs
AppendStep ==
  /\ pc = "dispatch"
  /\ pc' = "prompt"
  /\ ~has_pipe(input)
  /\ iss_word(input, 1) = w_history
  /\ iss_word(input, 2) = <<"-", "a">>
  /\ iss_word(input, 3) # <<>>

\* The file a history -a names
AppendTarget == iss_word(input, 3)

\* The step appends the entries [last_appended .. len) to F, one per line,
\* changes no other file, and leaves the cursor at len
AppendsNewEntries ==
  /\ files' = [files EXCEPT ![AppendTarget] =
       [exists |-> TRUE,
        data |-> files[AppendTarget].data
                 \o entry_lines(history, last_appended_history, Len(history))]]
  /\ last_appended_history' = Len(history)
  /\ persisted \cap ((last_appended_history + 1)..Len(history)) = {}

\* C6, as claimed: every history -a F appends the entries from the cursor on
\* to F and leaves the cursor at the end of the history.
C6_AppendAlways ==
  [][AppendStep =>
       /\ AppendTarget \in DOMAIN files => AppendsNewEntries
       /\ last_appended_history' = Len(history)]_vars

\* C6, amended: a history -a F whose file opens appends exactly the entries
\* [last_appended .. len), one per line, none of them written by an earlier
\* -a or -w, and moves the cursor to len; one whose file does not open
\* writes nothing and leaves the cursor.
C6_AppendWhenOpened ==
  [][AppendStep =>
       IF can_open_write(AppendTarget)
       THEN AppendsNewEntries
       ELSE files' = files /\ last_appended_history' = last_appended_history]_vars

\* After two loaded entries and a history -w F, a history -a F has added its
\* own line, the fourth entry, to F.
C6_Witness ==
  /\ pc = "prompt"
  /\ input = line_history_a
  /\ Len(history) = 4
  /\ history[3] = line_history_w
  /\ last_appended_history = 4
  /\ files[<<"F">>].data = entry_lines(history, 0, 4)

\* The step is a history -a F right after a history -a F that opened F
SecondAppendStep == AppendStep /\ prev_a # <<>> /\ prev_a = AppendTarget

C8_CursorCountsLoaded ==
  (nlines = 0 /\ pc = "prompt") => last_appended_history = Len(history)

\* C9, as claimed: when the shell process has ended and $HISTFILE is set,
\* the file holds the whole history.
C9_ExitSavesHistory ==
  (pc = "done" /\ histfile_set) =>
    /\ files[histfile.str].exists
    /\ files[histfile.str].data = entry_lines(history, 0, Len(history))

\* The line holds a character that is no space, tab or newline
HasNonWhitespace(line) ==
  \E k \in 1..Len(line) : line[k] \notin {" ", "\t", "\n"}

\* The step in which readline returns a line
ReadStep == pc = "prompt" /\ pc' = "dispatch"

\* C10: a line with a non-whitespace character is appended as the new last
\* entry when it is read, before its dispatch, whatever command it is; a
\* blank line leaves the history as it is; and every other step keeps the
\* entries there are, only history -r adding more at the end.
C10_AppendOnly ==
  [][/\ ReadStep =>
          history' = IF HasNonWhitespace(input') THEN Append(history, input')
                     ELSE history
     /\ ~ReadStep =>
          /\ IsPrefix(history, history')
          /\ history' # history =>
               /\ pc = "dispatch"
               /\ iss_word(input, 1) = w_history
               /\ iss_word(input, 2) = <<"-", "r">>]_vars

\* A pipeline line was appended and the blank line after it was not.
C10_Witness ==
  /\ pc = "dispatch"
  /\ input = line_blank
  /\ nlines = 2
  /\ \E k \in DOMAIN history : has_pipe(history[k])
  /\ history[Len(history)] # input

\* The lexer's state after a character c read in state m, d being the
\* character after c ("" at the end of the input): the three states of the
\* lexer, and the two in which the next character is escaped
next_lex_state(m, c, d) ==
  CASE m = "Unquoted" ->
         IF c = "'" THEN "InSingle"
         ELSE IF c = "\"" THEN "InDouble"
         ELSE IF c = "\\" THEN "Escaped"
         ELSE "Unquoted"
    [] m = "InSingle" -> IF c = "'" THEN "Unquoted" ELSE "InSingle"
    [] m = "InDouble" ->
         IF c = "\"" THEN "Unquoted"
         ELSE IF c = "\\" /\ d \in {"\"", "\\", "$", "\n"} THEN "EscapedInDouble"
         ELSE "InDouble"
    [] m = "Escaped" -> "Unquoted"
    [] m = "EscapedInDouble" -> "InDouble"

RECURSIVE lex_state(_, _, _, _)
\* The lexer's state before character k of s, m being its state before
\* character j
lex_state(s, k, j, m) ==
  IF j >= k THEN m
  ELSE lex_state(s, k, j + 1,
                 next_lex_state(m, s[j], IF j < Len(s) THEN s[j + 1] ELSE ""))

\* The line has a > and each > of it stands inside quotes
QuotedOperatorLine(line) ==
  /\ \E k \in DOMAIN line : line[k] = ">"
  /\ \A k \in DOMAIN line :
       line[k] = ">" => lex_state(line, k, 1, "Unquoted") \in {"InSingle", "InDouble"}

\* C11, as claimed: while a command whose only operators are quoted runs (as
\* echo or as an external command), no file is created or written, and the
\* argv of an external command is the whole token list.
C11_QuotedOperatorInert ==
  [][(QuotedOperatorLine(input) /\ pc # "prompt") =>
       /\ files' = files
       /\ \A p \in DOMAIN child' :
            child'[p].kind = "external" => child'[p].tokens = tokenize(input)]_vars

\* C12, as claimed: a stage child that runs its command has the argv and the
\* stdout and stderr that the redirection scan of the stage's tokens gives.
C12_StageRedirection ==
  \A p \in DOMAIN child :
    (child[p].kind = "stage" /\ child[p].st \in {"run", "prog"}) =>
      LET r == parse_redirection(stage_tokens[child[p].stage + 1])
      IN /\ child[p].tokens = r.tokens
         /\ r.redirect_file # <<>> =>
              child[p].fds[1] = file_desc(r.redirect_file)
         /\ r.redirect_stderr_file # <<>> =>
              child[p].fds[2] = file_desc(r.redirect_stderr_file)

\* The tokens that are operators of stdout and of stderr
StdoutOperators == {<<">">>, <<"1", ">">>, <<">", ">">>, <<"1", ">", ">">>}

StderrOperators == {<<"2", ">">>, <<"2", ">", ">">>}

AppendOperators == {<<">", ">">>, <<"1", ">", ">">>, <<"2", ">", ">">>}

RECURSIVE Consumed(_, _)
\* In a scan from the left, the token at position k is taken as an operator
\* with the token at k + 1 as its target: it is an operator, it is not the
\* last token, and it is not itself the target of the token before it
Consumed(tokens, k) ==
  /\ k >= 1
  /\ k < Len(tokens)
  /\ tokens[k] \in StdoutOperators \cup StderrOperators
  /\ ~Consumed(tokens, k - 1)

\* The positions that stay in the argv
Kept(tokens) ==
  {k \in DOMAIN tokens : ~Consumed(tokens, k) /\ ~Consumed(tokens, k - 1)}

\* The tokens at the kept positions, in their order
Residual(tokens) ==
  LET kept == Kept(tokens)
  IN [j \in 1..Cardinality(kept) |->
        tokens[CHOOSE k \in kept : Cardinality({m \in kept : m <= k}) = j]]

\* The position of the last consumed operator among ops, 0 when none
LastConsumed(tokens, ops) ==
  LET ks == {k \in DOMAIN tokens : Consumed(tokens, k) /\ tokens[k] \in ops}
  IN IF ks = {} THEN 0 ELSE CHOOSE k \in ks : \A m \in ks : m <= k

\* C13: the scan of a token list returns the tokens without the consumed
\* operator and target pairs, in their order; for stdout and for stderr the
\* target and the append flag of the last consumed operator of the stream
\* (no target and no append when there is none); and an operator that
\* stands last, not being the target of a consumed operator, stays as the
\* last token of the argv.
C13_RedirectionParsing ==
  (call.fn = "redirection_scan" /\ result # <<>>) =>
    LET t  == call.tokens
        r  == result[1]
        ko == LastConsumed(t, StdoutOperators)
        ke == LastConsumed(t, StderrOperators)
    IN /\ r.tokens = Residual(t)
       /\ r.redirect_file = IF ko = 0 THEN <<>> ELSE t[ko + 1]
       /\ r.append_mode = (ko # 0 /\ t[ko] \in AppendOperators)
       /\ r.redirect_stderr_file = IF ke = 0 THEN <<>> ELSE t[ke + 1]
       /\ r.append_stderr_mode = (ke # 0 /\ t[ke] \in AppendOperators)
       /\ (t # <<>> /\ t[Len(t)] \in StdoutOperators \cup StderrOperators
           /\ ~Consumed(t, Len(t) - 1)) =>
            (r.tokens # <<>> /\ r.tokens[Len(r.tokens)] = t[Len(t)])

\* The scan of [1>, a, b, >>] returned: a is the stdout target, b and the
\* final >> are the argv.
C13_Witness ==
  /\ call.fn = "redirection_scan"
  /\ call.tokens = <<<<"1", ">">>, <<"a">>, <<"b">>, <<">", ">">>>>
  /\ result # <<>>
  /\ result[1].tokens = <<<<"b">>, <<">", ">">>>>
  /\ result[1].redirect_file = <<"a">>
  /\ ~result[1].append_mode

\* tokenize has returned
Tokenized == call.fn = "tokenize" /\ result # <<>>

\* s without its first and last character
Inside(s) == SubSeq(s, 2, Len(s) - 1)

\* s is some string between two q
Between(s, q) == Len(s) >= 2 /\ s[1] = q /\ s[Len(s)] = q

\* c does not occur in s
Without(s, c) == \A k \in DOMAIN s : s[k] # c

\* C14, as claimed: for s without backslash the tokens of 's' are [s], and
\* the tokens of "s" are [s] when s has no double quote either.
C14_QuotingLaw ==
  Tokenized =>
    /\ (Between(call.s, "'") /\ Without(Inside(call.s), "\\")) =>
         result[1] = <<Inside(call.s)>>
    /\ (Between(call.s, "\"") /\ Without(Inside(call.s), "\\")
        /\ Without(Inside(call.s), "\"")) =>
         result[1] = <<Inside(call.s)>>

\* C14, amended: for a non-empty s without single quote the tokens of 's'
\* are [s], backslashes of s included; for a non-empty s without backslash
\* and without double quote the tokens of "s" are [s]; the tokens of '' and
\* of "" are the empty list.
C14_QuotingLawNonEmpty ==
  Tokenized =>
    /\ (Between(call.s, "'") /\ Without(Inside(call.s), "'")) =>
         result[1] = IF Inside(call.s) = <<>> THEN <<>>
                     ELSE <<Inside(call.s)>>
    /\ (Between(call.s, "\"") /\ Without(Inside(call.s), "\\")
        /\ Without(Inside(call.s), "\"")) =>
         result[1] = IF Inside(call.s) = <<>> THEN <<>>
                     ELSE <<Inside(call.s)>>

\* tokenize returned the one token a $' for "a $'", the space, the $ and
\* the single quote kept.
C14_Witness ==
  /\ Tokenized
  /\ call.s = <<"\"", "a", " ", "$", "'", "\"">>
  /\ result[1] = <<<<"a", " ", "$", "'">>>>

\* C15, as claimed: when the last character of the input is a backslash read
\* in the Unquoted state, the tokens are those of the input without it.
C15_TrailingBackslashDropped ==
  (/\ Tokenized
   /\ call.s # <<>>
   /\ call.s[Len(call.s)] = "\\"
   /\ lex_state(call.s, Len(call.s), 1, "Unquoted") = "Unquoted") =>
    result[1] = tokenize(SubSeq(call.s, 1, Len(call.s) - 1))

\* C16: in double quotes, p and q holding neither backslash nor double
\* quote, the tokens of "p\cq" are [pcq] when c is a double quote, a
\* backslash, a $ or a newline, and [p\cq] for any other c.
C16_DoubleQuoteEscape ==
  (Tokenized /\ Between(call.s, "\"")) =>
    \A k \in 2..(Len(call.s) - 2) :
      LET p == SubSeq(call.s, 2, k - 1)
          c == call.s[k + 1]
          q == SubSeq(call.s, k + 2, Len(call.s) - 1)
      IN (/\ call.s[k] = "\\"
          /\ Without(p, "\\") /\ Without(p, "\"")
          /\ Without(q, "\\") /\ Without(q, "\"")) =>
           result[1] = IF c \in {"\"", "\\", "$", "\n"}
                       THEN <<p \o <<c>> \o q>>
                       ELSE <<p \o <<"\\", c>> \o q>>

\* tokenize returned [a\na] for "a\na", the backslash before the letter n
\* kept.
C16_Witness ==
  /\ Tokenized
  /\ call.s = <<"\"", "a", "\\", "n", "a", "\"">>
  /\ result[1] = <<<<"a", "\\", "n", "a">>>>

\* d/c is there, is no directory and has the owner-execute bit
Qualifies(full_path) == full_path \in DOMAIN Programs /\ Programs[full_path]

\* The path of c: d/c for the first directory d of PATH, in its order, where
\* d/c qualifies; found is FALSE when there is none
Resolution(c) ==
  LET dirs == split_path(PATH_env, 1, <<>>, <<>>)
      hits == {k \in DOMAIN dirs : Qualifies(dirs[k] \o <<"/">> \o c)}
  IN IF hits = {} THEN [found |-> FALSE, full_path |-> <<>>]
     ELSE [found |-> TRUE,
           full_path |->
             dirs[CHOOSE k \in hits : \A m \in hits : k <= m] \o <<"/">> \o c]

\* C17, as claimed: type c, for a c without / that is no builtin, prints the
\* first qualifying d/c or "not found"; and an external command c without /
\* is reported missing exactly when no entry qualifies and otherwise is
\* executed without an error of the shell.
C17_FirstExecutableFileWins ==
  /\ (/\ pc = "prompt"
      /\ nlines > 0
      /\ ~has_pipe(input)
      /\ iss_word(input, 1) = w_type
      /\ iss_word(input, 2) # <<>>
      /\ ~is_builtin(iss_word(input, 2))
      /\ find_from(iss_word(input, 2), "/", 1) = npos) =>
       LET c == iss_word(input, 2)
       IN stdout_log[Len(stdout_log)] =
            IF Resolution(c).found
            THEN c \o msg_is \o Resolution(c).full_path
            ELSE c \o msg_not_found
  /\ \A p \in DOMAIN child :
       (/\ child[p].kind = "external"
        /\ child[p].status # "none"
        /\ child[p].tokens # <<>>
        /\ find_from(child[p].tokens[1], "/", 1) = npos
        /\ child[p].redirect_file = <<>>
        /\ child[p].redirect_stderr_file = <<>>) =>
         child[p].err = IF Resolution(child[p].tokens[1]).found THEN <<>>
                        ELSE child[p].tokens[1] \o msg_cmd_not_found

\* C18, as claimed: the list command_completion returns is strictly
\* increasing.
C18_CompletionsStrictlyIncreasing ==
  (call.fn = "command_completion" /\ result # <<>>) =>
    \A j \in 1..(Len(result[1]) - 1) :
      string_less(result[1][j], result[1][j + 1])

\* The stage child p has done its dup2 and close calls and runs its command
Running(p) == child[p].kind = "stage" /\ child[p].st \in {"run", "prog"}

\* C19: once the pipes of a pipeline of n stages are made there are n - 1
\* of them, two distinct descriptors of the shell each; and a stage child
\* that runs its command has the read end of pipe i - 1 as stdin when
\* i > 0 and the terminal otherwise, the write end of pipe i as stdout
\* when i < n - 1 and the terminal otherwise, and no other descriptor on
\* any pipe.
C19_PipelineWiring ==
  /\ pc \in {"fork", "close"} =>
       /\ Len(pfd) = 2 * (n - 1)
       /\ Len(pipebuf) = n - 1
       /\ Cardinality({pfd[j] : j \in DOMAIN pfd}) = 2 * (n - 1)
       /\ \A k \in 0..(n - 2) :
            /\ fds[pfd[2 * k + 1]] = pipe_end(k, "r")
            /\ fds[pfd[2 * k + 2]] = pipe_end(k, "w")
  /\ \A p \in DOMAIN child :
       Running(p) =>
         LET s == child[p].stage
         IN /\ child[p].fds[0] = IF s > 0 THEN pipe_end(s - 1, "r") ELSE Tty
            /\ child[p].fds[1] = IF s < n - 1 THEN pipe_end(s, "w") ELSE Tty
            /\ \A fd \in DOMAIN child[p].fds \ {0, 1} :
                 child[p].fds[fd].kind # "pipe"

\* In a pipeline of four stages the child of stage 2 has wired itself
\* between pipe 1 and pipe 2 and runs its command.
C19_Witness ==
  /\ n = 4
  /\ \E p \in DOMAIN child :
       /\ Running(p)
       /\ child[p].stage = 2
       /\ child[p].fds[0] = pipe_end(1, "r")
       /\ child[p].fds[1] = pipe_end(2, "w")
       /\ DOMAIN child[p].fds = {0, 1, 2}

\* The step is a step of the child p itself, from its fork to its end
StepOfChild(p) ==
  /\ p \in DOMAIN child
  /\ p \in DOMAIN child'
  /\ child[p].st \in {"forked", "run", "prog"}
  /\ child'[p] # child[p]

\* The child p is at the point where it runs the command of its stage
AtCommand(p) ==
  \/ child[p].kind = "stage" /\ child[p].st = "run"
  \/ child[p].kind = "external" /\ child[p].st = "forked"

C21_ResidualArgvNonEmpty ==
  \A p \in DOMAIN child :
    child[p].kind = "external" => child[p].tokens # <<>>

====
